---- MODULE Spec2Model ----
(***************************************************************************)
(* PaStA unified-diff parser: PaStA/Repository/Patch.py.                   *)
(*                                                                         *)
(* A line is a sequence of one-character strings, a path likewise.  The    *)
(* parser Diff.parse_diff_nosplit is a state machine over the list of      *)
(* lines it is handed: one step per loop iteration of the source.          *)
(* Lines never hold a line feed (parse_diff splits at every line feed).    *)
(*                                                                         *)
(* Spec      one call of parse_diff_nosplit on a list of lines             *)
(* SpecCalls parse_diff on a text, called again and by two invocations at  *)
(*           a time                                                        *)
(* SpecMerge Hunk.merge on Hunks that hold their lists by identity         *)
(***************************************************************************)
EXTENDS Integers, Sequences, FiniteSets, TLC

(***************************************************************************)
(* Bounds of the explored inputs.                                          *)
(***************************************************************************)
\* longest input of the free family (any lines of Vocab, any order)
MaxLen == 4

\* most blocks of an input of the block family
MaxBlocks == 4

\* longest hunk body, and largest declared count, of the hunk family
MaxBody == 3

MaxCount == 2

\* most file segments of an input of the path family
MaxSegs == 2

----------------------------------------------------------------------------
(***************************************************************************)
(* Sequence helpers (Python list and str operations).                      *)
(***************************************************************************)
SetMin(S) == CHOOSE m \in S : \A n \in S : m <= n

\* s[m-1:n] of Python, clipped like a Python slice
Slice(s, m, n) ==
    IF m >= 1 /\ m <= n /\ n <= Len(s) THEN SubSeq(s, m, n) ELSE <<>>

\* s[k:] for k = 2
SliceFrom2(s) == IF Len(s) <= 2 THEN <<>> ELSE SubSeq(s, 3, Len(s))

StartsWith(s, p) == Len(s) >= Len(p) /\ SubSeq(s, 1, Len(p)) = p

\* sub in s
Contains(s, sub) ==
    \E k \in 1..(Len(s) - Len(sub) + 1) : SubSeq(s, k, k + Len(sub) - 1) = sub

\* the character class \s of re
WhiteSpace == {" ", "\t", "\r", "\f"}

\* the character class \d of re, in value order
DigitSeq == <<"0", "1", "2", "3", "4", "5", "6", "7", "8", "9">>

Digits == {DigitSeq[i] : i \in 1..Len(DigitSeq)}

DigitVal(c) == (CHOOSE i \in 1..Len(DigitSeq) : DigitSeq[i] = c) - 1

\* int(str) on a string of decimal digits
RECURSIVE int(_)
int(s) ==
    IF s = <<>> THEN 0
    ELSE 10 * int(SubSeq(s, 1, Len(s) - 1)) + DigitVal(s[Len(s)])

\* number of leading characters of s[i-1:] outside the class bad ([^...]*)
RunOutside(s, i, bad) ==
    LET stop == {j \in i..Len(s) : s[j] \in bad}
    IN  IF i > Len(s) THEN 0
        ELSE IF stop = {} THEN Len(s) - i + 1
        ELSE SetMin(stop) - i

\* number of leading digits of s[i-1:] (\d+ is greedy)
DigitRun(s, i) ==
    LET stop == {j \in i..Len(s) : s[j] \notin Digits}
    IN  IF i > Len(s) THEN 0
        ELSE IF stop = {} THEN Len(s) - i + 1
        ELSE SetMin(stop) - i

\* len(list): the lines counted, not their lengths summed
SumLen_countsLines(list) == Len(list)

\* sum(map(len, list))
RECURSIVE SumLen(_)
SumLen(list) ==
    IF list = <<>> THEN 0 ELSE Len(Head(list)) + SumLen(Tail(list))

----------------------------------------------------------------------------
(***************************************************************************)
(* The patterns of class Diff.  A match is a record; matched = FALSE is    *)
(* Python's None.  A group that did not take part is <<>> (None).          *)
(***************************************************************************)
NoMatch == [matched |-> FALSE]

\* r'^[-\+@]'
DIFF_SELECTOR_REGEX(x) == Len(x) >= 1 /\ x[1] \in {"-", "+", "@"}

\* r'^--- ([^\s]*).*$'
FILE_SEPARATOR_MINUS_REGEX(line) ==
    IF StartsWith(line, <<"-", "-", "-", " ">>)
    THEN [matched |-> TRUE,
          group1  |-> Slice(line, 5, 4 + RunOutside(line, 5, WhiteSpace))]
    ELSE NoMatch

\* r'^\+\+\+ ([^\s]*).*$'
FILE_SEPARATOR_PLUS_REGEX(line) ==
    IF StartsWith(line, <<"+", "+", "+", " ">>)
    THEN [matched |-> TRUE,
          group1  |-> Slice(line, 5, 4 + RunOutside(line, 5, WhiteSpace))]
    ELSE NoMatch

\* r'^diff --cc (.+)$'
EXCLUDE_CC_REGEX(line) ==
    IF StartsWith(line, <<"d", "i", "f", "f", " ", "-", "-", "c", "c", " ">>)
       /\ Len(line) >= 11
    THEN [matched |-> TRUE, group1 |-> SubSeq(line, 11, Len(line))]
    ELSE NoMatch

\* r'^@@ -(\d+)(?:,(\d+))? \+(\d+)(?:,(\d+))?\ @@[ ]?(.*)'
HUNK_REGEX(line) ==
    LET a    == 5
        n1   == DigitRun(line, a)
        b    == a + n1
        has2 == b <= Len(line) /\ line[b] = "," /\ DigitRun(line, b + 1) >= 1
        n2   == IF has2 THEN DigitRun(line, b + 1) ELSE 0
        c    == IF has2 THEN b + 1 + n2 ELSE b
        d    == c + 2
        n3   == DigitRun(line, d)
        e    == d + n3
        has4 == e <= Len(line) /\ line[e] = "," /\ DigitRun(line, e + 1) >= 1
        n4   == IF has4 THEN DigitRun(line, e + 1) ELSE 0
        f    == IF has4 THEN e + 1 + n4 ELSE e
        g    == f + 3
        h    == IF g <= Len(line) /\ line[g] = " " THEN g + 1 ELSE g
    IN  IF /\ StartsWith(line, <<"@", "@", " ", "-">>)
           /\ n1 >= 1
           /\ Slice(line, c, c + 1) = <<" ", "+">>
           /\ n3 >= 1
           /\ Slice(line, f, f + 2) = <<" ", "@", "@">>
        THEN [matched |-> TRUE,
              group2  |-> IF has2 THEN SubSeq(line, b + 1, b + n2) ELSE <<>>,
              group4  |-> IF has4 THEN SubSeq(line, e + 1, e + n4) ELSE <<>>,
              group5  |-> Slice(line, h, Len(line))]
        ELSE NoMatch

LINE_IDENTIFIER_INSERTION == "+"
LINE_IDENTIFIER_DELETION == "-"
LINE_IDENTIFIER_CONTEXT == " "
LINE_IDENTIFIER_NEWLINE == "\\"

----------------------------------------------------------------------------
(***************************************************************************)
(* class Hunk: three lists of payloads.                                    *)
(***************************************************************************)
\* Hunk(insertions, deletions, context); an omitted or empty list is []
Hunk(ins, del, ctx) ==
    [insertions |-> ins, deletions |-> del, context |-> ctx]

EmptyHunk == Hunk(<<>>, <<>>, <<>>)

\* an assignment where merge should append
merge_overwrite(self, other) == other

\* self.merge(other): the value self holds afterwards
merge(self, other) ==
    [insertions |-> self.insertions \o other.insertions,
     deletions  |-> self.deletions \o other.deletions,
     context    |-> self.context \o other.context]

\* no filter: every payload is kept
FilterNone_keepsAll(list) == list

\* list(filter(None, list)): the empty strings are dropped
RECURSIVE FilterNone(_)
FilterNone(list) ==
    IF list = <<>> THEN <<>>
    ELSE IF Head(list) = <<>> THEN FilterNone(Tail(list))
    ELSE <<Head(list)>> \o FilterNone(Tail(list))

\* list.insert(0, x)
ListAppend_front(list, x) == <<x>> \o list

\* list.append(x)
ListAppend(list, x) == Append(list, x)

(***************************************************************************)
(* class Diff.                                                             *)
(***************************************************************************)
DevNull == <<"/", "d", "e", "v", "/", "n", "u", "l", "l">>

\* a side added whatever it holds
AffectedSide_anySide(p) == {SliceFrom2(p)}

\* what one side of a key adds to _affected
AffectedSide(p) == IF ~Contains(p, DevNull) THEN {SliceFrom2(p)} ELSE {}

\* the loop of Diff.__init__ over patches.keys()
Affected(p) ==
    UNION {AffectedSide(k[1]) \cup AffectedSide(k[2]) : k \in DOMAIN p}

\* Diff(patches, lines)
Diff(p, lines) ==
    [kind |-> "Diff", patches |-> p, lines |-> lines, affected |-> Affected(p)]

\* nothing returned (yet, or ever when the call raised)
NoDiff == [kind |-> "none"]

\* {}
EmptyDict == <<>>

\* d[k] = v
DictSet(d, k, v) == [x \in DOMAIN d \cup {k} |-> IF x = k THEN v ELSE d[x]]

----------------------------------------------------------------------------
(***************************************************************************)
(* The inputs explored.  Any list of lines is an input of the parser.      *)
(***************************************************************************)
\* "--- a/x"
MinusAX == <<"-", "-", "-", " ", "a", "/", "x">>

\* "+++ b/x"
PlusBX == <<"+", "+", "+", " ", "b", "/", "x">>

\* "@@ -1,0 +1 @@ f": old count 0, new count omitted, heading f
HunkF == <<"@", "@", " ", "-", "1", ",", "0", " ", "+", "1", " ", "@", "@", " ", "f">>

\* "@@ -1 +1,2 @@": old count omitted, new count 2, empty heading
HunkG == <<"@", "@", " ", "-", "1", " ", "+", "1", ",", "2", " ", "@", "@">>

\* "+a"
InsA == <<"+", "a">>

\* "-b"
DelB == <<"-", "b">>

\* " c"
CtxC == <<" ", "c">>

\* ""
EmptyLine == <<>>

\* "diff --cc x"
CcX == <<"d", "i", "f", "f", " ", "-", "-", "c", "c", " ", "x">>

Vocab == {MinusAX, PlusBX, HunkF, HunkG, InsA, DelB, CtxC, EmptyLine, CcX}

\* every list of at most MaxLen lines of Vocab
FreeInputs == UNION {[1..n -> Vocab] : n \in 0..MaxLen}

\* the lists of a sequence of lists, joined
RECURSIVE Flatten(_)
Flatten(ss) == IF ss = <<>> THEN <<>> ELSE Head(ss) \o Flatten(Tail(ss))

\* "@@ -2 +2 @@ f": both counts omitted, heading f as in HunkF
HunkF2 == <<"@", "@", " ", "-", "2", " ", "+", "2", " ", "@", "@", " ", "f">>

\* "@@ -1,0 +1,2 @@": old count 0, new count 2, empty heading
HunkH == <<"@", "@", " ", "-", "1", ",", "0", " ", "+", "1", ",", "2", " ", "@", "@">>

\* "+d"
InsD == <<"+", "d">>

\* "x"
Noise == <<"x">>

\* "--- /dev/null"
MinusNull == <<"-", "-", "-", " ", "/", "d", "e", "v", "/", "n", "u", "l", "l">>

\* "+++ b/y"
PlusBY == <<"+", "+", "+", " ", "b", "/", "y">>

\* file headers, whole hunks, a hunk header without its body, a '--- ' line
\* without its '+++ ' line, a line of noise
Blocks ==
    { <<MinusAX, PlusBX>>, <<MinusNull, PlusBY>>,
      <<HunkF, InsA>>, <<HunkF2, DelB, InsD>>, <<HunkH, InsD, InsA>>,
      <<HunkF>>, <<MinusAX>>, <<Noise>> }

\* every list of at most MaxBlocks blocks, joined
BlockInputs == {Flatten(bs) : bs \in UNION {[1..n -> Blocks] : n \in 0..MaxBlocks}}

\* str(n) for n >= 0
RECURSIVE str(_)
str(n) == IF n < 10 THEN <<DigitSeq[n + 1]>>
          ELSE str(n \div 10) \o <<DigitSeq[(n % 10) + 1]>>

\* ",<n>", or nothing for the count left out (n = -1)
CountText(n) == IF n = -1 THEN <<>> ELSE <<",">> \o str(n)

\* "@@ -1[,<m>] +1[,<m2>] @@"
HunkLine(m, m2) ==
    <<"@", "@", " ", "-", "1">> \o CountText(m) \o <<" ", "+", "1">>
        \o CountText(m2) \o <<" ", "@", "@">>

\* "+"
InsEmpty == <<"+">>

\* "\ N"
NoNewline == <<"\\", " ", "N">>

BodyVocab == {InsA, DelB, CtxC, InsEmpty, EmptyLine, NoNewline, Noise}

\* one file header, one hunk header with any counts, any body
HunkInputs ==
    { <<MinusAX, PlusBX, HunkLine(m, m2)>> \o body :
        m \in -1..MaxCount, m2 \in -1..MaxCount,
        body \in UNION {[1..n -> BodyVocab] : n \in 0..MaxBody} }

\* "a/x", "b/y", "a/dev/null", "x"
PathAX == <<"a", "/", "x">>

PathBY == <<"b", "/", "y">>

PathADevNull == <<"a", "/", "d", "e", "v", "/", "n", "u", "l", "l">>

PathX == <<"x">>

Paths == {DevNull, PathAX, PathBY, PathADevNull, PathX}

\* "--- <p>\t0", "+++ <q>\t0", "@@ -0,0 +0,0 @@": a segment of one hunk
\* that has no body
Segment(p, q) ==
    << <<"-", "-", "-", " ">> \o p \o <<"\t", "0">>,
       <<"+", "+", "+", " ">> \o q \o <<"\t", "0">>,
       HunkLine(0, 0) >>

Segments == {Segment(p, q) : p \in Paths, q \in Paths}

\* at most MaxSegs segments, of any two paths each
PathInputs ==
    {Flatten(ss) : ss \in UNION {[1..n -> Segments] : n \in 0..MaxSegs}}

Inputs == FreeInputs \cup BlockInputs \cup HunkInputs \cup PathInputs

----------------------------------------------------------------------------
(***************************************************************************)
(* State of one call of Diff.parse_diff_nosplit(diff).                     *)
(***************************************************************************)
VARIABLES
    input,         \* the list the caller passed, as it was at the call
    diff,          \* the list the caller passed, as it is now (lines are popped)
    pc,            \* the place in the source: start, outer (101), scan (103),
                   \* scanned (107), hunks (114), body (136), done, failed
    diff_lines,    \* line 93
    patches,       \* line 99: key -> heading -> Hunk
    minus,         \* lines 104, 109
    plus,          \* line 110
    l_lines,       \* lines 118-120
    r_lines,       \* lines 123-125
    hunk_heading,  \* line 127
    del_cntr,      \* line 129
    add_cntr,      \* line 130
    insertions,    \* line 132
    deletions,     \* line 133
    context,       \* line 134
    ret,           \* the Diff returned, NoDiff before the return
    raised,        \* the exception that ended the call, "" when none did
    origin,        \* history: for each payload of insertions, deletions and
                   \* context, the place in input of the line it was cut from
    hunklog,       \* history: the hunks built at line 167, in order
    texts,         \* parse_diff: the str each of the two invocations is handed
    tid,           \* parse_diff: the invocation whose variables are the ones
                   \* above (1 or 2)
    phase,         \* single (one call of parse_diff_nosplit), alone (the
                   \* invocations run one behind the other), together (they
                   \* run interleaved)
    alone,         \* history: what each invocation gave when it ran alone
    other,         \* the variables of the invocation that is not running
    heap,          \* Hunk.merge: the list objects, by identity
    hunk_a,        \* Hunk.merge: the receiver, its three attributes hold
                   \* identities of list objects
    hunk_b,        \* Hunk.merge: the argument, likewise
    mpc,           \* Hunk.merge: idle, called, returned, failed
    merge_ret,     \* Hunk.merge: the value returned
    file,          \* load_pkl_or_execute: what is at filename
    update_command,\* load_pkl_or_execute: what the callback does with each
                   \* argument
    lpc,           \* load_pkl_or_execute: idle, load (405), update (409),
                   \* dump (410), return (413), returned, raised
    pkl_ret,       \* load_pkl_or_execute: ret
    changed,       \* load_pkl_or_execute: changed
    file0,         \* history: what was at filename at the call
    calls,         \* history: the arguments update_command was called with
    dumps          \* history: the values pickle.dump was called with

vars == <<input, diff, pc, diff_lines, patches, minus, plus, l_lines, r_lines,
          hunk_heading, del_cntr, add_cntr, insertions, deletions, context,
          ret, raised, origin, hunklog, texts, tid, phase, alone, other,
          heap, hunk_a, hunk_b, mpc, merge_ret, file, update_command, lpc,
          pkl_ret, changed, file0, calls, dumps>>

\* the state of load_pkl_or_execute
cachevars == <<file, update_command, lpc, pkl_ret, changed, file0, calls, dumps>>

\* what no step of parse_diff_nosplit touches
outside == <<texts, tid, phase, alone, other, heap, hunk_a, hunk_b, mpc,
             merge_ret, cachevars>>

locals == <<l_lines, r_lines, hunk_heading, del_cntr, add_cntr, insertions,
            deletions, context, origin>>

\* diff_index = minus, plus (line 112)
diff_index == <<minus, plus>>

\* the place in input of the line at the front of diff
Position == Len(input) - Len(diff) + 1

\* nothing returned and nothing raised
NoOutcome == [ret |-> NoDiff, raised |-> ""]

\* no invocation is waiting
NoFrame == [pc |-> "none"]

\* parse_diff is not called
NoCalls ==
    /\ texts = <<>>
    /\ tid = 1
    /\ phase = "single"
    /\ alone = <<>>
    /\ other = NoFrame

\* Hunk.merge is not called
NoMerge ==
    /\ heap = <<>>
    /\ hunk_a = EmptyHunk
    /\ hunk_b = EmptyHunk
    /\ mpc = "idle"
    /\ merge_ret = ""

\* None
None == [kind |-> "None"]

\* nothing at filename
Absent == [kind |-> "absent"]

\* load_pkl_or_execute is not called
NoCache ==
    /\ file = Absent
    /\ update_command = <<>>
    /\ lpc = "idle"
    /\ pkl_ret = None
    /\ changed = FALSE
    /\ file0 = Absent
    /\ calls = <<>>
    /\ dumps = <<>>

\* the state of a call before its first step
Unset ==
    /\ diff_lines = 0
    /\ patches = EmptyDict
    /\ minus = <<>>
    /\ plus = <<>>
    /\ l_lines = 0
    /\ r_lines = 0
    /\ hunk_heading = <<>>
    /\ del_cntr = 0
    /\ add_cntr = 0
    /\ insertions = <<>>
    /\ deletions = <<>>
    /\ context = <<>>
    /\ ret = NoDiff
    /\ raised = ""
    /\ origin = EmptyHunk
    /\ hunklog = <<>>

Init ==
    /\ input \in Inputs
    /\ diff = input
    /\ pc = "start"
    /\ Unset
    /\ NoCalls
    /\ NoMerge
    /\ NoCache

\* lines 92-93
SizeMetric(lines) == SumLen(SelectSeq(lines, DIFF_SELECTOR_REGEX))

\* a combined diff that keeps its size metric
ExcludeCC_keepsMetric ==
    /\ pc = "start"
    /\ diff # <<>> /\ EXCLUDE_CC_REGEX(diff[1]).matched
    /\ diff_lines' = SizeMetric(diff)
    /\ ret' = Diff(EmptyDict, SizeMetric(diff))
    /\ pc' = "done"
    /\ UNCHANGED outside
    /\ UNCHANGED <<input, diff, patches, minus, plus, locals, raised, hunklog>>

\* lines 92-97: the size metric, then a combined diff is not parsed
ExcludeCC ==
    /\ pc = "start"
    /\ diff # <<>> /\ EXCLUDE_CC_REGEX(diff[1]).matched
    /\ diff_lines' = SizeMetric(diff)
    /\ ret' = Diff(EmptyDict, 0)
    /\ pc' = "done"
    /\ UNCHANGED outside
    /\ UNCHANGED <<input, diff, patches, minus, plus, locals, raised, hunklog>>

\* patches is not made anew at line 99: a call goes on with the dict of the
\* call before
Begin_keepsPatches ==
    /\ pc = "start"
    /\ ~(diff # <<>> /\ EXCLUDE_CC_REGEX(diff[1]).matched)
    /\ diff_lines' = SizeMetric(diff)
    /\ pc' = "outer"
    /\ UNCHANGED outside
    /\ UNCHANGED <<input, diff, patches, minus, plus, locals, ret, raised,
                   hunklog>>

\* lines 92-99
Begin ==
    /\ pc = "start"
    /\ ~(diff # <<>> /\ EXCLUDE_CC_REGEX(diff[1]).matched)
    /\ diff_lines' = SizeMetric(diff)
    /\ patches' = EmptyDict
    /\ pc' = "outer"
    /\ UNCHANGED outside
    /\ UNCHANGED <<input, diff, minus, plus, locals, ret, raised, hunklog>>

\* line 101, the loop goes on
OuterLoop ==
    /\ pc = "outer"
    /\ Len(diff) # 0
    /\ pc' = "scan"
    /\ UNCHANGED outside
    /\ UNCHANGED <<input, diff, diff_lines, patches, minus, plus, locals, ret,
                   raised, hunklog>>

\* line 101, the loop ends; line 177
Return ==
    /\ pc = "outer"
    /\ Len(diff) = 0
    /\ ret' = Diff(patches, diff_lines)
    /\ pc' = "done"
    /\ UNCHANGED outside
    /\ UNCHANGED <<input, diff, diff_lines, patches, minus, plus, locals,
                   raised, hunklog>>

\* the segment search looks at diff[0] and pops it only when it is a '--- '
\* line
ScanLine_peeks ==
    /\ pc = "scan"
    /\ Len(diff) # 0
    /\ minus' = Head(diff)
    /\ IF FILE_SEPARATOR_MINUS_REGEX(Head(diff)).matched
       THEN diff' = Tail(diff) /\ pc' = "scanned"
       ELSE diff' = diff /\ pc' = "scan"
    /\ UNCHANGED outside
    /\ UNCHANGED <<input, diff_lines, patches, plus, locals, ret, raised,
                   hunklog>>

\* lines 103-106: one line is popped; the loop ends at a '--- ' line or when
\* no line is left
ScanLine ==
    /\ pc = "scan"
    /\ Len(diff) # 0
    /\ minus' = Head(diff)
    /\ diff' = Tail(diff)
    /\ pc' = IF FILE_SEPARATOR_MINUS_REGEX(Head(diff)).matched \/ Len(Tail(diff)) = 0
             THEN "scanned" ELSE "scan"
    /\ UNCHANGED outside
    /\ UNCHANGED <<input, diff_lines, patches, plus, locals, ret, raised,
                   hunklog>>

\* no test at line 107: line 110 pops from the empty list
BreakEmpty_missing ==
    /\ pc = "scanned"
    /\ Len(diff) = 0
    /\ raised' = IF FILE_SEPARATOR_MINUS_REGEX(minus).matched
                 THEN "IndexError" ELSE "AttributeError"
    /\ pc' = "failed"
    /\ UNCHANGED outside
    /\ UNCHANGED <<input, diff, diff_lines, patches, minus, plus, locals, ret,
                   hunklog>>

\* lines 107-108, then line 177
BreakEmpty ==
    /\ pc = "scanned"
    /\ Len(diff) = 0
    /\ ret' = Diff(patches, diff_lines)
    /\ pc' = "done"
    /\ UNCHANGED outside
    /\ UNCHANGED <<input, diff, diff_lines, patches, minus, plus, locals,
                   raised, hunklog>>

\* the key is entered in patches as soon as the file header is read
FileHeader_makesKey ==
    /\ pc = "scanned"
    /\ Len(diff) # 0
    /\ FILE_SEPARATOR_PLUS_REGEX(Head(diff)).matched
    /\ minus' = FILE_SEPARATOR_MINUS_REGEX(minus).group1
    /\ plus' = FILE_SEPARATOR_PLUS_REGEX(Head(diff)).group1
    /\ patches' =
         LET key == <<FILE_SEPARATOR_MINUS_REGEX(minus).group1,
                      FILE_SEPARATOR_PLUS_REGEX(Head(diff)).group1>>
         IN  IF key \in DOMAIN patches THEN patches
             ELSE DictSet(patches, key, EmptyDict)
    /\ diff' = Tail(diff)
    /\ pc' = "hunks"
    /\ UNCHANGED outside
    /\ UNCHANGED <<input, diff_lines, locals, ret, raised, hunklog>>

\* lines 109-112: the next line is a '+++ ' line
FileHeader ==
    /\ pc = "scanned"
    /\ Len(diff) # 0
    /\ FILE_SEPARATOR_PLUS_REGEX(Head(diff)).matched
    /\ minus' = FILE_SEPARATOR_MINUS_REGEX(minus).group1
    /\ plus' = FILE_SEPARATOR_PLUS_REGEX(Head(diff)).group1
    /\ diff' = Tail(diff)
    /\ pc' = "hunks"
    /\ UNCHANGED outside
    /\ UNCHANGED <<input, diff_lines, patches, locals, ret, raised, hunklog>>

\* lines 109-110: the next line is no '+++ ' line, None has no group()
MalformedPlus ==
    /\ pc = "scanned"
    /\ Len(diff) # 0
    /\ ~FILE_SEPARATOR_PLUS_REGEX(Head(diff)).matched
    /\ minus' = FILE_SEPARATOR_MINUS_REGEX(minus).group1
    /\ diff' = Tail(diff)
    /\ raised' = "AttributeError"
    /\ pc' = "failed"
    /\ UNCHANGED outside
    /\ UNCHANGED <<input, diff_lines, patches, plus, locals, ret, hunklog>>

\* lines 114-134: a hunk header is popped
HunkHeader ==
    /\ pc = "hunks"
    /\ Len(diff) # 0 /\ HUNK_REGEX(Head(diff)).matched
    /\ LET hunk == HUNK_REGEX(Head(diff))
       IN  /\ l_lines' = IF hunk.group2 # <<>> THEN int(hunk.group2) ELSE 1
           /\ r_lines' = IF hunk.group4 # <<>> THEN int(hunk.group4) ELSE 1
           /\ hunk_heading' = hunk.group5
    /\ diff' = Tail(diff)
    /\ del_cntr' = 0
    /\ add_cntr' = 0
    /\ insertions' = <<>>
    /\ deletions' = <<>>
    /\ context' = <<>>
    /\ origin' = EmptyHunk
    /\ pc' = "body"
    /\ UNCHANGED outside
    /\ UNCHANGED <<input, diff_lines, patches, minus, plus, ret, raised,
                   hunklog>>

\* a line between two hunks that is no '--- ' line is skipped and the hunks
\* behind it are still read
HunksEnd_skipsLine ==
    /\ pc = "hunks"
    /\ ~(Len(diff) # 0 /\ HUNK_REGEX(Head(diff)).matched)
    /\ IF Len(diff) # 0 /\ ~FILE_SEPARATOR_MINUS_REGEX(Head(diff)).matched
       THEN diff' = Tail(diff) /\ pc' = "hunks"
       ELSE diff' = diff /\ pc' = "outer"
    /\ UNCHANGED outside
    /\ UNCHANGED <<input, diff_lines, patches, minus, plus, locals, ret,
                   raised, hunklog>>

\* line 114: no hunk header follows, back to line 101
HunksEnd ==
    /\ pc = "hunks"
    /\ ~(Len(diff) # 0 /\ HUNK_REGEX(Head(diff)).matched)
    /\ pc' = "outer"
    /\ UNCHANGED outside
    /\ UNCHANGED <<input, diff, diff_lines, patches, minus, plus, locals, ret,
                   raised, hunklog>>

\* a body that ends as soon as one of the two counts is met
Satisfied_eitherSide == del_cntr = l_lines \/ add_cntr = r_lines

\* line 136
Satisfied == del_cntr = l_lines /\ add_cntr = r_lines

\* an empty line taken for a line that counts on neither side
Identifier_emptyUncounted(line) ==
    IF line = <<>> THEN LINE_IDENTIFIER_NEWLINE ELSE line[1]

\* lines 141-146
Identifier(line) == IF line = <<>> THEN " " ELSE line[1]

Payload(line) == IF line = <<>> THEN <<>> ELSE Tail(line)

\* a '\ No newline' line counted like any other line
AddStep_newlineCounted(identifier) ==
    IF identifier = LINE_IDENTIFIER_DELETION THEN 0 ELSE 1

\* lines 148-160: what a body line with this identifier adds to add_cntr
AddStep(identifier) ==
    IF identifier = LINE_IDENTIFIER_INSERTION THEN 1
    ELSE IF identifier = LINE_IDENTIFIER_DELETION THEN 0
    ELSE IF identifier = LINE_IDENTIFIER_CONTEXT THEN 1
    ELSE IF identifier # LINE_IDENTIFIER_NEWLINE THEN 1
    ELSE 0

\* a context line that counts on the new side only
DelStep_contextUncounted(identifier) ==
    IF identifier = LINE_IDENTIFIER_DELETION THEN 1
    ELSE IF identifier \in {LINE_IDENTIFIER_INSERTION, LINE_IDENTIFIER_CONTEXT,
                            LINE_IDENTIFIER_NEWLINE} THEN 0
    ELSE 1

\* a line with an identifier of no kind counts on neither side
DelStep_unknownUncounted(identifier) ==
    IF identifier \in {LINE_IDENTIFIER_DELETION, LINE_IDENTIFIER_CONTEXT}
    THEN 1 ELSE 0

\* lines 148-160: what a body line with this identifier adds to del_cntr
DelStep(identifier) ==
    IF identifier = LINE_IDENTIFIER_INSERTION THEN 0
    ELSE IF identifier = LINE_IDENTIFIER_DELETION THEN 1
    ELSE IF identifier = LINE_IDENTIFIER_CONTEXT THEN 1
    ELSE IF identifier # LINE_IDENTIFIER_NEWLINE THEN 1
    ELSE 0

\* lines 136-160: one body line is popped and classified
BodyLine ==
    /\ pc = "body"
    /\ ~Satisfied
    /\ Len(diff) # 0
    /\ LET line       == Head(diff)
           identifier == Identifier(line)
           payload    == Payload(line)
       IN  /\ insertions' = IF identifier = LINE_IDENTIFIER_INSERTION
                            THEN ListAppend(insertions, payload) ELSE insertions
           /\ deletions' = IF identifier = LINE_IDENTIFIER_DELETION
                           THEN ListAppend(deletions, payload) ELSE deletions
           /\ context' = IF identifier = LINE_IDENTIFIER_CONTEXT
                         THEN ListAppend(context, payload) ELSE context
           /\ add_cntr' = add_cntr + AddStep(identifier)
           /\ del_cntr' = del_cntr + DelStep(identifier)
           /\ origin' =
                [insertions |-> IF identifier = LINE_IDENTIFIER_INSERTION
                                THEN Append(origin.insertions, Position)
                                ELSE origin.insertions,
                 deletions  |-> IF identifier = LINE_IDENTIFIER_DELETION
                                THEN Append(origin.deletions, Position)
                                ELSE origin.deletions,
                 context    |-> IF identifier = LINE_IDENTIFIER_CONTEXT
                                THEN Append(origin.context, Position)
                                ELSE origin.context]
    /\ diff' = Tail(diff)
    /\ UNCHANGED outside
    /\ UNCHANGED <<input, pc, diff_lines, patches, minus, plus, l_lines,
                   r_lines, hunk_heading, ret, raised, hunklog>>

\* a loop that also ends when no line is left: the hunk is kept as it is
BodyTruncated_keepsHunk ==
    /\ pc = "body"
    /\ ~Satisfied
    /\ Len(diff) = 0
    /\ ret' = Diff(patches, diff_lines)
    /\ pc' = "done"
    /\ UNCHANGED outside
    /\ UNCHANGED <<input, diff, diff_lines, patches, minus, plus, locals,
                   raised, hunklog>>

\* lines 136-137: the counts are not met and no line is left, pop raises
BodyTruncated ==
    /\ pc = "body"
    /\ ~Satisfied
    /\ Len(diff) = 0
    /\ raised' = "IndexError"
    /\ pc' = "failed"
    /\ UNCHANGED outside
    /\ UNCHANGED <<input, diff, diff_lines, patches, minus, plus, locals, ret,
                   hunklog>>

\* the places in input whose payload is not empty
KeptOrigin(places) == SelectSeq(places, LAMBDA i : Len(input[i]) > 1)

\* the key gets a new dict with every hunk: what it held is dropped
Merged_newDict(p, key, heading, h) ==
    DictSet(p, key, DictSet(EmptyDict, heading, merge(EmptyHunk, h)))

\* lines 169-175: patches after the hunk h is merged in under key and heading
Merged(p, key, heading, h) ==
    LET p1 == IF key \notin DOMAIN p THEN DictSet(p, key, EmptyDict) ELSE p
        p2 == IF heading \notin DOMAIN p1[key]
              THEN DictSet(p1, key, DictSet(p1[key], heading, EmptyHunk))
              ELSE p1
    IN  DictSet(p2, key, DictSet(p2[key], heading, merge(p2[key][heading], h)))

\* lines 136, 162-175: the counts are met; the hunk is filtered and merged
HunkFinish ==
    /\ pc = "body"
    /\ Satisfied
    /\ LET h == Hunk(FilterNone(insertions), FilterNone(deletions),
                     FilterNone(context))
           o == Hunk(KeptOrigin(origin.insertions), KeptOrigin(origin.deletions),
                     KeptOrigin(origin.context))
       IN  /\ insertions' = h.insertions
           /\ deletions' = h.deletions
           /\ context' = h.context
           /\ origin' = o
           /\ patches' = Merged(patches, diff_index, hunk_heading, h)
           /\ hunklog' = Append(hunklog, [key |-> diff_index,
                                          heading |-> hunk_heading,
                                          h |-> h, origin |-> o])
    /\ pc' = "hunks"
    /\ UNCHANGED outside
    /\ UNCHANGED <<input, diff, diff_lines, minus, plus, l_lines, r_lines,
                   hunk_heading, del_cntr, add_cntr, ret, raised>>

Next ==
    \/ ExcludeCC
    \/ Begin
    \/ OuterLoop
    \/ Return
    \/ ScanLine
    \/ BreakEmpty
    \/ FileHeader
    \/ MalformedPlus
    \/ HunkHeader
    \/ HunksEnd
    \/ BodyLine
    \/ BodyTruncated
    \/ HunkFinish

Spec == Init /\ [][Next]_vars

----------------------------------------------------------------------------
(***************************************************************************)
(* Diff.parse_diff, called more than once.  The first invocation runs      *)
(* alone, then the second runs alone, then both run again, interleaved.    *)
(* Every name of lines 90-177 is a local of parse_diff_nosplit and the     *)
(* class attributes of Diff are patterns that are only read, so the        *)
(* variables of an invocation are its own; a call that follows another     *)
(* finds in them whatever the call before left, to show that it assigns    *)
(* each before it reads it.                                                *)
(***************************************************************************)
\* most blocks of a text
MaxParts == 2

\* '\n'.join(lines)
RECURSIVE Join(_)
Join(lines) ==
    IF lines = <<>> THEN <<>>
    ELSE IF Len(lines) = 1 THEN lines[1]
    ELSE lines[1] \o <<"\n">> \o Join(Tail(lines))

\* diff.split('\n') (line 87)
RECURSIVE split(_)
split(s) ==
    LET at == {i \in 1..Len(s) : s[i] = "\n"}
    IN  IF at = {} THEN <<s>>
        ELSE <<SubSeq(s, 1, SetMin(at) - 1)>>
                 \o split(SubSeq(s, SetMin(at) + 1, Len(s)))

\* blocks of a text: a file header, whole hunks, a hunk header without its
\* body, a '--- ' line alone, noise, a 'diff --cc' line
TextBlocks ==
    { <<MinusAX, PlusBX>>, <<HunkF, InsA>>, <<HunkF2, DelB, InsD>>,
      <<HunkF>>, <<MinusAX>>, <<Noise>>, <<CcX>> }

\* two hunks of one heading behind a file header, then a last line feed
TwoHunksText ==
    Join(<<MinusAX, PlusBX, HunkF, InsA, HunkF2, DelB, InsD, EmptyLine>>)

\* a created file with a hunk of two insertions, lines ending in '\r\n'
CreatedFileText ==
    Join(<<MinusNull \o <<"\r">>, PlusBY \o <<"\r">>, HunkH \o <<"\r">>,
           InsD \o <<"\r">>, InsA \o <<"\r">>>>)

\* a hunk cut short
CutShortText == Join(<<MinusAX, PlusBX, HunkG, InsA>>)

SampleTexts == {TwoHunksText, CreatedFileText, CutShortText}

\* every text of at most MaxParts blocks, and the samples
Texts ==
    {Join(Flatten(bs)) : bs \in UNION {[1..n -> TextBlocks] : n \in 0..MaxParts}}
        \cup SampleTexts

\* what a call gave: the Diff returned or the exception raised
Outcome == [ret |-> ret, raised |-> raised]

\* the variables of the running invocation
Frame ==
    [input |-> input, diff |-> diff, pc |-> pc, diff_lines |-> diff_lines,
     patches |-> patches, minus |-> minus, plus |-> plus,
     l_lines |-> l_lines, r_lines |-> r_lines, hunk_heading |-> hunk_heading,
     del_cntr |-> del_cntr, add_cntr |-> add_cntr, insertions |-> insertions,
     deletions |-> deletions, context |-> context, ret |-> ret,
     raised |-> raised, origin |-> origin, hunklog |-> hunklog]

InitCalls ==
    /\ texts \in {<<t, u>> : t \in Texts, u \in SampleTexts}
                    \cup {<<t, t>> : t \in Texts}
    /\ tid = 1
    /\ phase = "alone"
    /\ alone = <<NoOutcome, NoOutcome>>
    /\ other = NoFrame
    /\ input = <<>>
    /\ diff = <<>>
    /\ pc = "parse_diff"
    /\ Unset
    /\ NoMerge
    /\ NoCache

\* lines 84-88: parse_diff splits its text and hands the list to
\* parse_diff_nosplit
ParseDiff ==
    /\ pc = "parse_diff"
    /\ diff' = split(texts[tid])
    /\ input' = split(texts[tid])
    /\ pc' = "start"
    /\ UNCHANGED <<diff_lines, patches, minus, plus, locals, ret, raised,
                   hunklog>>
    /\ UNCHANGED outside

\* the first invocation is over, the second is called
NextCall ==
    /\ phase = "alone" /\ tid = 1
    /\ pc \in {"done", "failed"}
    /\ alone' = [alone EXCEPT ![1] = Outcome]
    /\ tid' = 2
    /\ pc' = "parse_diff"
    /\ ret' = NoDiff
    /\ raised' = ""
    /\ hunklog' = <<>>
    /\ UNCHANGED <<input, diff, diff_lines, patches, minus, plus, locals>>
    /\ UNCHANGED <<texts, phase, other, heap, hunk_a, hunk_b, mpc, merge_ret>>
    /\ UNCHANGED cachevars

\* the second invocation is over, both are called again
Together ==
    /\ phase = "alone" /\ tid = 2
    /\ pc \in {"done", "failed"}
    /\ alone' = [alone EXCEPT ![2] = Outcome]
    /\ phase' = "together"
    /\ tid' = 1
    /\ pc' = "parse_diff"
    /\ ret' = NoDiff
    /\ raised' = ""
    /\ hunklog' = <<>>
    /\ other' = [Frame EXCEPT !.pc = "parse_diff", !.ret = NoDiff,
                              !.raised = "", !.hunklog = <<>>]
    /\ UNCHANGED <<input, diff, diff_lines, patches, minus, plus, locals>>
    /\ UNCHANGED <<texts, heap, hunk_a, hunk_b, mpc, merge_ret>>
    /\ UNCHANGED cachevars

\* patches is one dict of the module, not a local of each invocation
Switch_sharedPatches ==
    /\ phase = "together"
    /\ tid' = 3 - tid
    /\ other' = Frame
    /\ input' = other.input
    /\ diff' = other.diff
    /\ pc' = other.pc
    /\ diff_lines' = other.diff_lines
    /\ patches' = patches
    /\ minus' = other.minus
    /\ plus' = other.plus
    /\ l_lines' = other.l_lines
    /\ r_lines' = other.r_lines
    /\ hunk_heading' = other.hunk_heading
    /\ del_cntr' = other.del_cntr
    /\ add_cntr' = other.add_cntr
    /\ insertions' = other.insertions
    /\ deletions' = other.deletions
    /\ context' = other.context
    /\ ret' = other.ret
    /\ raised' = other.raised
    /\ origin' = other.origin
    /\ hunklog' = other.hunklog
    /\ UNCHANGED <<texts, phase, alone, heap, hunk_a, hunk_b, mpc, merge_ret>>
    /\ UNCHANGED cachevars

\* the running invocation is halted between two steps and the other goes on:
\* each keeps its own locals of lines 90-177
Switch ==
    /\ phase = "together"
    /\ tid' = 3 - tid
    /\ other' = Frame
    /\ input' = other.input
    /\ diff' = other.diff
    /\ pc' = other.pc
    /\ diff_lines' = other.diff_lines
    /\ patches' = other.patches
    /\ minus' = other.minus
    /\ plus' = other.plus
    /\ l_lines' = other.l_lines
    /\ r_lines' = other.r_lines
    /\ hunk_heading' = other.hunk_heading
    /\ del_cntr' = other.del_cntr
    /\ add_cntr' = other.add_cntr
    /\ insertions' = other.insertions
    /\ deletions' = other.deletions
    /\ context' = other.context
    /\ ret' = other.ret
    /\ raised' = other.raised
    /\ origin' = other.origin
    /\ hunklog' = other.hunklog
    /\ UNCHANGED <<texts, phase, alone, heap, hunk_a, hunk_b, mpc, merge_ret>>
    /\ UNCHANGED cachevars

NextCalls ==
    \/ Next
    \/ ParseDiff
    \/ NextCall
    \/ Together
    \/ Switch

SpecCalls == InitCalls /\ [][NextCalls]_vars

----------------------------------------------------------------------------
(***************************************************************************)
(* Hunk.merge on list objects.  A Hunk holds three lists by identity       *)
(* (Hunk.__init__ keeps a list it is handed unless the list is empty), and *)
(* '+=' extends a list in place, so what merge does depends on which       *)
(* attributes hold the same list.  Identities are numbered in the order    *)
(* the six attributes first hold them.                                     *)
(***************************************************************************)
\* longest list before the merge
MaxItems == 2

\* the payloads a list holds, in this order
Items == <<<<"p">>, <<"q">>, <<"r">>, <<"s">>>>

Contents == {SubSeq(Items, 1, n) : n \in 0..MaxItems}

\* _insertions, _deletions, _context (lines 17-19)
Attrs == <<"insertions", "deletions", "context">>

AttrSet == {Attrs[i] : i \in 1..Len(Attrs)}

\* the identities held by the six attributes, receiver first
Held(a, b) ==
    [i \in 1..Len(Attrs) |-> a[Attrs[i]]] \o [i \in 1..Len(Attrs) |-> b[Attrs[i]]]

SetMax(S) == CHOOSE x \in S : \A y \in S : y <= x

\* '+=' that puts the items of y in front
iadd_front(h, x, y) == [h EXCEPT ![x] = h[y] \o h[x]]

\* x += y on lists (list.__iadd__): the object x is extended by the items of
\* the object y, which may be x itself
iadd(h, x, y) == [h EXCEPT ![x] = h[x] \o h[y]]

InitMerge ==
    /\ hunk_a \in [AttrSet -> 1..(2 * Len(Attrs))]
    /\ hunk_b \in [AttrSet -> 1..(2 * Len(Attrs))]
    /\ LET held == Held(hunk_a, hunk_b)
       IN  /\ held[1] = 1
           /\ \A i \in 2..Len(held) :
                 held[i] <= 1 + SetMax({held[j] : j \in 1..(i - 1)})
           /\ heap \in [1..SetMax({held[j] : j \in 1..Len(held)}) -> Contents]
    /\ mpc = "called"
    /\ merge_ret = ""
    /\ input = <<>>
    /\ diff = <<>>
    /\ pc = "none"
    /\ Unset
    /\ NoCalls
    /\ NoCache

\* lines 21-25: hunk_a.merge(hunk_b)
Merge ==
    /\ mpc = "called"
    /\ heap' = iadd(iadd(iadd(heap, hunk_a.insertions, hunk_b.insertions),
                         hunk_a.deletions, hunk_b.deletions),
                    hunk_a.context, hunk_b.context)
    /\ merge_ret' = "None"
    /\ mpc' = "returned"
    /\ UNCHANGED <<hunk_a, hunk_b, texts, tid, phase, alone, other>>
    /\ UNCHANGED cachevars
    /\ UNCHANGED <<input, diff, pc, diff_lines, patches, minus, plus, locals,
                   ret, raised, hunklog>>

SpecMerge == InitMerge /\ [][Merge]_vars

----------------------------------------------------------------------------
(***************************************************************************)
(* load_pkl_or_execute (bin/pasta_evaluate_patches.py): one call.  What is *)
(* at filename is nothing, a pickle of some object, or a file pickle.load  *)
(* cannot read.  update_command is any callback: for each argument it      *)
(* either raises or returns a pair (ret, changed), where ret may be an     *)
(* object pickle.dump cannot write.                                        *)
(***************************************************************************)
\* number of distinct objects other than None
MaxValues == 2

\* an object pickle can write and read back
Obj(n) == [kind |-> "obj", id |-> n]

\* an object pickle.dump raises on
Unpicklable == [kind |-> "unpicklable"]

Picklable == {None} \cup {Obj(n) : n \in 1..MaxValues}

\* a file written by pickle.dump(v, ...)
Pickle(v) == [kind |-> "pickle", value |-> v]

\* a file pickle.load raises on; open(filename, 'wb') followed by a failing
\* pickle.dump leaves one
Damaged == [kind |-> "damaged"]

Files == {Absent, Damaged} \cup {Pickle(v) : v \in Picklable}

\* os.path.isfile(filename), line 406
isfile(f) == f # Absent

\* what one call of update_command does
Raises == [kind |-> "raise"]
Returns(v, c) == [kind |-> "return", ret |-> v, changed |-> c]
Outcomes == {Raises} \cup {Returns(v, c) : v \in Picklable \cup {Unpicklable},
                                           c \in BOOLEAN}

\* the variables of the other operations
notcache == <<input, diff, pc, diff_lines, patches, minus, plus, locals, ret,
              raised, hunklog, texts, tid, phase, alone, other, heap, hunk_a,
              hunk_b, mpc, merge_ret>>

InitCache ==
    /\ file \in Files
    /\ file0 = file
    /\ update_command \in [Picklable -> Outcomes]
    /\ lpc = "load"
    /\ pkl_ret = None
    /\ changed = FALSE
    /\ calls = <<>>
    /\ dumps = <<>>
    /\ input = <<>>
    /\ diff = <<>>
    /\ pc = "none"
    /\ Unset
    /\ NoCalls
    /\ NoMerge

\* lines 405-406: ret = None, and filename is no file
SkipLoad ==
    /\ lpc = "load"
    /\ ~isfile(file)
    /\ pkl_ret' = None
    /\ lpc' = "update"
    /\ UNCHANGED <<file, update_command, changed, file0, calls, dumps>>
    /\ UNCHANGED notcache

\* lines 406-407: ret = pickle.load(open(filename, 'rb'))
Load ==
    /\ lpc = "load"
    /\ isfile(file)
    /\ file.kind = "pickle"
    /\ pkl_ret' = file.value
    /\ lpc' = "update"
    /\ UNCHANGED <<file, update_command, changed, file0, calls, dumps>>
    /\ UNCHANGED notcache

\* line 407: pickle.load raises
LoadRaises ==
    /\ lpc = "load"
    /\ isfile(file)
    /\ file.kind # "pickle"
    /\ lpc' = "raised"
    /\ UNCHANGED <<file, update_command, pkl_ret, changed, file0, calls, dumps>>
    /\ UNCHANGED notcache

\* line 409: ret, changed = update_command(ret)
CallUpdate ==
    /\ lpc = "update"
    /\ calls' = Append(calls, pkl_ret)
    /\ LET out == update_command[pkl_ret]
       IN  IF out.kind = "raise"
           THEN /\ lpc' = "raised"
                /\ UNCHANGED <<pkl_ret, changed>>
           ELSE /\ pkl_ret' = out.ret
                /\ changed' = out.changed
                /\ lpc' = "dump"
    /\ UNCHANGED <<file, update_command, file0, dumps>>
    /\ UNCHANGED notcache

\* lines 410-411: if changed: pickle.dump(ret, open(filename, 'wb'))
Dump ==
    /\ lpc = "dump"
    /\ changed
    /\ dumps' = Append(dumps, pkl_ret)
    /\ IF pkl_ret \in Picklable
       THEN /\ file' = Pickle(pkl_ret)
            /\ lpc' = "return"
       ELSE /\ file' = Damaged
            /\ lpc' = "raised"
    /\ UNCHANGED <<update_command, pkl_ret, changed, file0, calls>>
    /\ UNCHANGED notcache

\* line 410: changed is false
NoDump_writes ==
    /\ lpc = "dump"
    /\ ~changed
    /\ file' = IF pkl_ret \in Picklable THEN Pickle(pkl_ret) ELSE Damaged
    /\ lpc' = "return"
    /\ UNCHANGED <<update_command, pkl_ret, changed, file0, calls, dumps>>
    /\ UNCHANGED notcache

\* line 410: changed is false
NoDump ==
    /\ lpc = "dump"
    /\ ~changed
    /\ lpc' = "return"
    /\ UNCHANGED <<file, update_command, pkl_ret, changed, file0, calls, dumps>>
    /\ UNCHANGED notcache

\* line 413: return ret
ReturnRet ==
    /\ lpc = "return"
    /\ lpc' = "returned"
    /\ UNCHANGED <<file, update_command, pkl_ret, changed, file0, calls, dumps>>
    /\ UNCHANGED notcache

NextCache ==
    \/ SkipLoad
    \/ Load
    \/ LoadRaises
    \/ CallUpdate
    \/ Dump
    \/ NoDump
    \/ ReturnRet

SpecCache == InitCache /\ [][NextCache]_vars

----------------------------------------------------------------------------
(***************************************************************************)
(* Properties of the parser, by claim.                                      *)
(***************************************************************************)
\* the count a hunk header declares: the group, or 1 when it is left out
Declared(group) == IF group = <<>> THEN 1 ELSE int(group)

\* how many of the lines from the 4th on start with one of ids
BodyCount(lines, ids) ==
    Cardinality({i \in 4..Len(lines) : lines[i][1] \in ids})

\* a '--- ' line, a '+++ ' line, one hunk header, then body lines that start
\* with '+', '-' or ' ', carry a payload and meet both declared counts
WellFormedSingleHunk(lines) ==
    /\ Len(lines) >= 3
    /\ FILE_SEPARATOR_MINUS_REGEX(lines[1]).matched
    /\ FILE_SEPARATOR_PLUS_REGEX(lines[2]).matched
    /\ HUNK_REGEX(lines[3]).matched
    /\ \A i \in 4..Len(lines) :
          Len(lines[i]) >= 2 /\ lines[i][1] \in {"+", "-", " "}
    /\ BodyCount(lines, {"-", " "}) = Declared(HUNK_REGEX(lines[3]).group2)
    /\ BodyCount(lines, {"+", " "}) = Declared(HUNK_REGEX(lines[3]).group4)

\* the hunks of a patches mapping, as <<key, heading>> pairs
HunksOf(p) == UNION {{<<k, hd>> : hd \in DOMAIN p[k]} : k \in DOMAIN p}

\* C1: a well-formed single-hunk diff is parsed without failure into exactly
\* one Hunk, whose insertions and context together number the declared new
\* count and whose deletions and context together number the declared old count.
C1_WellFormedCounts ==
    WellFormedSingleHunk(input) =>
        /\ pc # "failed"
        /\ pc = "done" =>
            /\ ret.kind = "Diff"
            /\ Cardinality(HunksOf(ret.patches)) = 1
            /\ \A kh \in HunksOf(ret.patches) :
                 LET h == ret.patches[kh[1]][kh[2]]
                 IN  /\ Len(h.insertions) + Len(h.context)
                          = Declared(HUNK_REGEX(input[3]).group4)
                     /\ Len(h.deletions) + Len(h.context)
                          = Declared(HUNK_REGEX(input[3]).group2)

\* a well-formed diff of one hunk with an insertion, a deletion and a context
\* line has been parsed
C1_Witness ==
    /\ pc = "done"
    /\ WellFormedSingleHunk(input)
    /\ \E kh \in HunksOf(ret.patches) :
         LET h == ret.patches[kh[1]][kh[2]]
         IN  Len(h.insertions) = 1 /\ Len(h.deletions) = 1 /\ Len(h.context) = 1

\* C2: when the segment search has stopped at a '--- ' line and the next line
\* is missing or is no '+++ ' line, the call fails and returns no Diff.
C2_MinusWithoutPlusFails ==
    [][(/\ pc = "scanned"
        /\ FILE_SEPARATOR_MINUS_REGEX(minus).matched
        /\ (Len(diff) = 0 \/ ~FILE_SEPARATOR_PLUS_REGEX(Head(diff)).matched))
       => (pc' = "failed" /\ ret' = NoDiff)]_vars

\* the counts of the hunk being read can no longer both be met
Overshot == del_cntr > l_lines \/ add_cntr > r_lines

\* C3: once a hunk header is consumed, a body that runs out of lines before
\* both counts are met, or that pushed a count past its target, ends the call
\* in a failure; nothing is returned, the earlier hunks included.
C3_TruncatedHunkFails ==
    /\ [](pc = "failed" => ret = NoDiff /\ raised # "")
    /\ [][(/\ pc = "body"
           /\ ~(del_cntr = l_lines /\ add_cntr = r_lines)
           /\ (Len(diff) = 0 \/ Overshot))
          => (/\ ret' = NoDiff
              /\ IF Len(diff) = 0
                 THEN pc' = "failed" /\ raised' = "IndexError"
                 ELSE pc' = "body" /\ Overshot')]_vars

\* a hunk was parsed and merged, then a later hunk overshot a count and the
\* input ran out: the call failed and returned nothing
C3_Witness ==
    /\ pc = "failed"
    /\ raised = "IndexError"
    /\ hunklog # <<>>
    /\ patches # EmptyDict
    /\ Overshot
    /\ ret = NoDiff

\* the hunks built so far under key k and heading hd, in input order
Logged(k, hd) == SelectSeq(hunklog, LAMBDA e : e.key = k /\ e.heading = hd)

\* every hunk of p is the hunks logged under its key and heading, joined in
\* input order, and every logged hunk is in p
AgreesWithLog(p) ==
    /\ HunksOf(p) = {<<hunklog[i].key, hunklog[i].heading>> : i \in 1..Len(hunklog)}
    /\ \A kh \in HunksOf(p) :
         LET parts == Logged(kh[1], kh[2])
             h     == p[kh[1]][kh[2]]
         IN  /\ h.insertions = Flatten([j \in 1..Len(parts) |-> parts[j].h.insertions])
             /\ h.deletions = Flatten([j \in 1..Len(parts) |-> parts[j].h.deletions])
             /\ h.context = Flatten([j \in 1..Len(parts) |-> parts[j].h.context])

\* C4: hunks that share a key and a heading end up as one Hunk whose three
\* sequences are those of all these hunks joined in input order, both in
\* patches after every merge and in the Diff returned.
C4_SameHeadingMerged ==
    /\ AgreesWithLog(patches)
    /\ pc = "done" => AgreesWithLog(ret.patches)

\* two hunks with different line ranges and the heading f were merged: one
\* Hunk holds the insertion of the first, then that of the second
C4_Witness ==
    /\ pc = "done"
    /\ \E kh \in HunksOf(ret.patches) :
         /\ Len(Logged(kh[1], kh[2])) >= 2
         /\ ret.patches[kh[1]][kh[2]].insertions = << <<"a">>, <<"d">> >>
    /\ \E i, j \in 1..Len(input) : i < j /\ input[i] = HunkF /\ input[j] = HunkF2

\* seq holds the payloads of the input lines at places, which start with id
\* and stand in the input in this order
OrderedFrom(seq, places, id) ==
    /\ Len(seq) = Len(places)
    /\ \A j \in 1..Len(seq) : input[places[j]] = <<id>> \o seq[j]
    /\ \A j \in 1..(Len(seq) - 1) : places[j] < places[j + 1]

\* C5: in the Diff returned, the payloads of each sequence of each Hunk stand
\* in the order of the input lines they were cut from.
C5_OrderPreserved ==
    pc = "done" =>
        \A kh \in HunksOf(ret.patches) :
            LET parts == Logged(kh[1], kh[2])
                h     == ret.patches[kh[1]][kh[2]]
            IN  /\ OrderedFrom(h.insertions,
                     Flatten([j \in 1..Len(parts) |-> parts[j].origin.insertions]), "+")
                /\ OrderedFrom(h.deletions,
                     Flatten([j \in 1..Len(parts) |-> parts[j].origin.deletions]), "-")
                /\ OrderedFrom(h.context,
                     Flatten([j \in 1..Len(parts) |-> parts[j].origin.context]), " ")

\* a Hunk merged from two hunks holds three insertions or more, not all alike
C5_Witness ==
    /\ pc = "done"
    /\ \E kh \in HunksOf(ret.patches) :
         LET h == ret.patches[kh[1]][kh[2]]
         IN  /\ Len(Logged(kh[1], kh[2])) >= 2
             /\ Len(h.insertions) >= 3
             /\ h.insertions[1] # h.insertions[2]

\* the first line is a combined-diff header
CombinedFirst == input # <<>> /\ EXCLUDE_CC_REGEX(input[1]).matched

\* C6: an input whose first line is 'diff --cc <path>' is never parsed and
\* never fails: the Diff returned has no patches, no affected path and size 0.
C6_CombinedDiffEmpty ==
    CombinedFirst =>
        /\ pc \in {"start", "done"}
        /\ pc = "done" =>
            /\ ret.kind = "Diff"
            /\ ret.patches = EmptyDict
            /\ ret.affected = {}
            /\ ret.lines = 0

\* a combined diff was returned empty although a '--- ' line with no '+++ '
\* line after it follows the header
C6_Witness ==
    /\ pc = "done"
    /\ CombinedFirst
    /\ Len(input) >= 3
    /\ FILE_SEPARATOR_MINUS_REGEX(input[2]).matched
    /\ ~FILE_SEPARATOR_PLUS_REGEX(input[3]).matched
    /\ ret.lines = 0

\* C7: every key of patches other than the sentinel pair adds an entry to
\* affected.
C7_EveryKeyContributes ==
    pc = "done" =>
        \A k \in DOMAIN ret.patches :
            \/ k[1] = DevNull /\ k[2] = DevNull
            \/ {SliceFrom2(k[1]), SliceFrom2(k[2])} \cap ret.affected # {}

RECURSIVE LengthSum(_, _)
LengthSum(lines, n) ==
    IF n = 0 THEN 0
    ELSE LengthSum(lines, n - 1)
         + (IF lines[n] # <<>> /\ lines[n][1] \in {"-", "+", "@"}
            THEN Len(lines[n]) ELSE 0)

\* C9: unless the first line is a combined-diff header, the size metric of the
\* Diff returned is the summed length of all input lines that start with '-',
\* '+' or '@', wherever they stand.
C9_SizeMetric ==
    (pc = "done" /\ ~CombinedFirst) =>
        ret.kind = "Diff" /\ ret.lines = LengthSum(input, Len(input))

\* a Diff with a hunk was returned for an input that starts with a '+', '-'
\* or '@' line outside any file segment; the metric exceeds the line count
C9_Witness ==
    /\ pc = "done"
    /\ ~CombinedFirst
    /\ input # <<>>
    /\ DIFF_SELECTOR_REGEX(input[1])
    /\ ~FILE_SEPARATOR_MINUS_REGEX(input[1]).matched
    /\ hunklog # <<>>
    /\ ret.lines > Cardinality({i \in 1..Len(input) : DIFF_SELECTOR_REGEX(input[i])})

\* the segment search is on: no '--- ' line is held
Searching ==
    \/ pc \in {"outer", "scan"}
    \/ pc = "scanned" /\ ~FILE_SEPARATOR_MINUS_REGEX(minus).matched

\* no line left is a '--- ' line
NoMinusLeft ==
    \A i \in 1..Len(diff) : ~FILE_SEPARATOR_MINUS_REGEX(diff[i]).matched

\* C10: a segment search that finds no further '--- ' line ends the call with
\* success and returns the hunks accumulated so far, unchanged; an input with
\* no '--- ' line at all (the empty one included) gives an empty Diff.
C10_ExhaustedEndsWell ==
    /\ []((\A i \in 1..Len(input) : ~FILE_SEPARATOR_MINUS_REGEX(input[i]).matched)
            => /\ pc # "failed"
               /\ pc = "done" =>
                    ret.kind = "Diff" /\ ret.patches = EmptyDict /\ ret.affected = {})
    /\ [][(Searching /\ NoMinusLeft)
          => /\ raised' = ""
             /\ patches' = patches
             /\ \/ pc' = "done" /\ ret'.kind = "Diff" /\ ret'.patches = patches
                \/ Searching' /\ NoMinusLeft']_vars

\* a Diff with its hunks was returned after noise behind the last hunk
C10_Witness ==
    /\ pc = "done"
    /\ hunklog # <<>>
    /\ input[Len(input)] = Noise
    /\ ~FILE_SEPARATOR_MINUS_REGEX(minus).matched
    /\ ret.patches = patches
    /\ patches # EmptyDict

\* C13: parsing does not modify its input: when parse_diff_nosplit has
\* returned or failed, the list it was handed holds the lines it held at the
\* call.
C13_InputUnmodified ==
    pc \in {"done", "failed"} => diff = input

\* a body line is about to be popped, and it starts with a backslash
AtBackslashLine ==
    /\ pc = "body" /\ ~Satisfied /\ diff # <<>>
    /\ Head(diff) # <<>> /\ Head(diff)[1] = "\\"

\* C15 as the spec has it: inside a hunk body a line that starts with a
\* backslash is consumed, adds one to the old-side and to the new-side running
\* count, and adds no payload to any of the three sequences.
C15_BackslashCountsBoth ==
    [][AtBackslashLine
       => /\ diff' = Tail(diff)
          /\ del_cntr' = del_cntr + 1
          /\ add_cntr' = add_cntr + 1
          /\ <<insertions, deletions, context>>' = <<insertions, deletions, context>>
      ]_vars

\* C15, as the code has it: inside a hunk body a line that starts with a
\* backslash is consumed, leaves both running counts as they were, adds no
\* payload to any of the three sequences, and the body goes on.
C15_BackslashCountsNothing ==
    [][AtBackslashLine
       => /\ diff' = Tail(diff)
          /\ del_cntr' = del_cntr
          /\ add_cntr' = add_cntr
          /\ <<insertions, deletions, context>>' = <<insertions, deletions, context>>
          /\ pc' = "body" /\ raised' = ""
      ]_vars

\* a backslash line was popped as the line behind an insertion and the counts
\* stand where the insertion left them
C15_Witness ==
    /\ pc = "body"
    /\ Len(input) >= 5 /\ HUNK_REGEX(input[3]).matched
    /\ input[4] = InsA /\ input[5] = NoNewline
    /\ Position = 6
    /\ add_cntr = 1 /\ del_cntr = 0
    /\ insertions = <<Payload(InsA)>> /\ deletions = <<>> /\ context = <<>>

\* a body line is about to be popped, and it is empty or starts with a space
AtContextLine ==
    /\ pc = "body" /\ ~Satisfied /\ diff # <<>>
    /\ Head(diff) = <<>> \/ Head(diff)[1] = " "

\* C16: inside a hunk body an empty line is accepted as a context line: like
\* a line that starts with a space it is consumed, adds one to the old-side
\* and to the new-side running count and its (empty) payload to context, the
\* call does not fail and the body goes on.
C16_EmptyLineIsContext ==
    [][AtContextLine
       => /\ diff' = Tail(diff)
          /\ del_cntr' = del_cntr + 1
          /\ add_cntr' = add_cntr + 1
          /\ context' = Append(context, IF Head(diff) = <<>> THEN <<>>
                                        ELSE Tail(Head(diff)))
          /\ <<insertions, deletions>>' = <<insertions, deletions>>
          /\ pc' = "body" /\ raised' = ""
      ]_vars

\* an empty line was popped as the first body line of a hunk and counted on
\* both sides
C16_Witness ==
    /\ pc = "body"
    /\ Len(input) >= 4 /\ HUNK_REGEX(input[3]).matched
    /\ input[4] = EmptyLine
    /\ Position = 5
    /\ add_cntr = 1 /\ del_cntr = 1
    /\ context = <<EmptyLine>>
    /\ ~Satisfied

\* no sequence of the Hunk h holds an empty payload
NoEmptyPayload(h) ==
    /\ \A i \in 1..Len(h.insertions) : h.insertions[i] # <<>>
    /\ \A i \in 1..Len(h.deletions) : h.deletions[i] # <<>>
    /\ \A i \in 1..Len(h.context) : h.context[i] # <<>>

\* a body line is about to be popped, and its payload is empty
AtBareLine ==
    /\ pc = "body" /\ ~Satisfied /\ diff # <<>>
    /\ Head(diff) \in {<<"+">>, <<"-">>, <<" ">>, <<>>}

\* C17: no Hunk of a returned Diff holds an empty payload in its insertions,
\* deletions or context, whatever the number of hunks and merges; a body line
\* with an empty payload ('+', '-' or ' ' alone, or an empty line) still
\* counts toward the targets.
C17_NoEmptyPayload ==
    /\ [](pc = "done" =>
            \A kh \in HunksOf(ret.patches) :
                NoEmptyPayload(ret.patches[kh[1]][kh[2]]))
    /\ [][AtBareLine
          => /\ diff' = Tail(diff)
             /\ add_cntr' = add_cntr + (IF Head(diff) = <<"-">> THEN 0 ELSE 1)
             /\ del_cntr' = del_cntr + (IF Head(diff) = <<"+">> THEN 0 ELSE 1)
             /\ pc' = "body" /\ raised' = ""
         ]_vars

\* a hunk of two declared insertions was returned with one payload: the bare
\* '+' line counted and left no entry
C17_Witness ==
    /\ pc = "done"
    /\ Len(input) = 5 /\ input[4] = InsEmpty /\ input[5] = InsA
    /\ l_lines = 0 /\ r_lines = 2 /\ add_cntr = 2
    /\ \E kh \in HunksOf(ret.patches) :
         ret.patches[kh[1]][kh[2]] = Hunk(<<Payload(InsA)>>, <<>>, <<>>)

\* both running counts stand at their targets
CountsMet == del_cntr = l_lines /\ add_cntr = r_lines

\* C18: the targets of a hunk are the counts of its header, 1 for a count the
\* header omits and 0 for a count written 0; the body ends exactly at the
\* first point where both running counts equal their targets: until then
\* every step pops one more body line, from then on no line is popped for the
\* hunk, and a hunk that declares 0 and 0 pops no body line.
C18_BodyEndsWhenCountsMet ==
    /\ [][(pc = "hunks" /\ pc' = "body")
          => /\ l_lines' = Declared(HUNK_REGEX(Head(diff)).group2)
             /\ r_lines' = Declared(HUNK_REGEX(Head(diff)).group4)
             /\ del_cntr' = 0 /\ add_cntr' = 0
             /\ diff' = Tail(diff)
         ]_vars
    /\ [][(pc = "body" /\ ~CountsMet /\ diff # <<>>)
          => pc' = "body" /\ diff' = Tail(diff) /\ hunklog' = hunklog
         ]_vars
    /\ [][(pc = "body" /\ CountsMet)
          => /\ pc' = "hunks" /\ diff' = diff
             /\ Len(hunklog') = Len(hunklog) + 1
         ]_vars
    /\ []((pc = "body" /\ l_lines = 0 /\ r_lines = 0)
            => del_cntr = 0 /\ add_cntr = 0)

\* a hunk whose header omits the old count and writes the new count as 0 has
\* ended behind its one deletion; the insertion that follows was not popped
C18_Witness ==
    /\ pc = "hunks"
    /\ Len(input) = 5 /\ input[3] = HunkLine(-1, 0)
    /\ l_lines = 1 /\ r_lines = 0
    /\ Position = 5 /\ diff = <<InsA>>
    /\ Len(hunklog) = 1
    /\ hunklog[1].h = Hunk(<<>>, <<Payload(DelB)>>, <<>>)

\* the path p without its leading 'a/' or 'b/', whole when it has neither
WithoutPrefix(p) ==
    IF StartsWith(p, <<"a", "/">>) \/ StartsWith(p, <<"b", "/">>)
    THEN SubSeq(p, 3, Len(p))
    ELSE p

\* C20: every element of affected is a path of some patches key with its
\* leading 'a/' or 'b/' removed and nothing else removed: a key path that
\* starts with neither is in affected unshortened.
C20_OnlyPrefixStripped ==
    pc = "done" =>
        \A a \in ret.affected :
            \E k \in DOMAIN ret.patches :
                \E side \in 1..2 : a = WithoutPrefix(k[side])

\* the line at the front of diff is a hunk header
HeaderNext == diff # <<>> /\ HUNK_REGEX(Head(diff)).matched

\* the first two lines are a file header, the third is no hunk header and no
\* '--- ' line follows
OneSegmentNoHunkFirst ==
    /\ Len(input) >= 3
    /\ FILE_SEPARATOR_MINUS_REGEX(input[1]).matched
    /\ FILE_SEPARATOR_PLUS_REGEX(input[2]).matched
    /\ ~HUNK_REGEX(input[3]).matched
    /\ \A i \in 3..Len(input) : ~FILE_SEPARATOR_MINUS_REGEX(input[i]).matched

\* C19: within a file segment a hunk is recorded only if its header is the
\* line right behind the '+++ ' line or right behind the last body line of
\* the hunk before it.  A hunk header is looked for only at the place reached
\* by popping the '+++ ' line of a file header or by ending a hunk body; a
\* line there that is no hunk header ends the segment without being popped,
\* and from then on every line, hunk headers included, is popped and tested
\* as a '--- ' line only, and no hunk is recorded, until a '--- ' line is met.
C19_HunksOnlyInSequence ==
    /\ [][(pc # "hunks" /\ pc' = "hunks")
          => \/ /\ pc = "scanned"
                /\ FILE_SEPARATOR_MINUS_REGEX(minus).matched
                /\ FILE_SEPARATOR_PLUS_REGEX(Head(diff)).matched
                /\ diff' = Tail(diff)
             \/ /\ pc = "body" /\ CountsMet
                /\ diff' = diff
         ]_vars
    /\ [][(hunklog' # hunklog \/ patches' # patches)
          => pc \in {"start", "body"}]_vars
    /\ [][(pc # "body" /\ pc' = "body")
          => pc = "hunks" /\ HeaderNext /\ diff' = Tail(diff)]_vars
    /\ [][(pc = "hunks" /\ ~HeaderNext)
          => /\ pc' = "outer" /\ diff' = diff
             /\ patches' = patches /\ hunklog' = hunklog
         ]_vars
    /\ [][(pc = "scan" /\ diff # <<>>)
          => /\ diff' = Tail(diff)
             /\ patches' = patches /\ hunklog' = hunklog
             /\ \/ Searching'
                \/ pc' = "scanned" /\ FILE_SEPARATOR_MINUS_REGEX(Head(diff)).matched
         ]_vars
    /\ []((pc = "done" /\ OneSegmentNoHunkFirst)
            => ret.patches = EmptyDict /\ hunklog = <<>>)

\* a file header, a line that is no hunk header, then a complete hunk: the
\* call returned and the hunk was not recorded
C19_Witness ==
    /\ pc = "done"
    /\ input = <<MinusAX, PlusBX, Noise, HunkF, InsA>>
    /\ ret.patches = EmptyDict
    /\ hunklog = <<>>

\* C11: parse_diff called twice on the same text gives equal results: equal
\* patches with equal Hunk sequences, equal affected sets and equal size
\* metric, or the same failure; nothing the first call set shows in the second.
C11_SecondCallEqual ==
    (phase = "alone" /\ tid = 2 /\ texts[2] = texts[1]
        /\ pc \in {"done", "failed"})
    => Outcome = alone[1]

\* the second call on a text of two hunks of one heading has returned what the
\* first returned, one Hunk of both
C11_Witness ==
    /\ phase = "alone" /\ tid = 2
    /\ texts = <<TwoHunksText, TwoHunksText>>
    /\ pc = "done"
    /\ alone[1].ret.kind = "Diff"
    /\ ret.patches = alone[1].ret.patches
    /\ \E kh \in HunksOf(ret.patches) :
         ret.patches[kh[1]][kh[2]]
            = Hunk(<<Payload(InsA), Payload(InsD)>>, <<Payload(DelB)>>, <<>>)

\* what the invocation that is not running gave
OtherOutcome == [ret |-> other.ret, raised |-> other.raised]

\* C12: two invocations of the parser that run at the same time on inputs of
\* their own, their steps interleaved in any order without a lock, each give
\* what they gave when run alone; a step of one leaves every variable of the
\* other as it was, and a change of the running invocation hands each its own
\* variables back.
C12_InterleavedAsAlone ==
    /\ [](phase = "together" =>
            /\ pc \in {"done", "failed"} => Outcome = alone[tid]
            /\ other.pc \in {"done", "failed"} => OtherOutcome = alone[3 - tid])
    /\ [][(phase = "together" /\ tid' = tid) => other' = other]_vars
    /\ [][(phase = "together" /\ tid' # tid)
          => other' = Frame /\ Frame' = other]_vars

\* one invocation has returned its hunk while the other, on another text,
\* stands in the body of its second hunk with its first hunk recorded
C12_Witness ==
    /\ phase = "together"
    /\ texts[1] # texts[2]
    /\ pc = "done" /\ ret.patches # EmptyDict
    /\ Outcome = alone[tid]
    /\ other.pc = "body" /\ other.patches # EmptyDict
    /\ other.diff # <<>>

\* no list is held by both Hunks
NoListShared ==
    \A f \in AttrSet, g \in AttrSet : hunk_a[f] # hunk_b[g]

\* the three attributes of the receiver hold three lists
OwnListsDistinct ==
    \A f \in AttrSet, g \in AttrSet : f # g => hunk_a[f] # hunk_a[g]

\* each list of the receiver is what it was, followed by the list of the
\* argument under the same attribute; the lists of the argument are what they
\* were; nothing is returned and the call does not fail
MergedInPlace ==
    /\ \A f \in AttrSet :
          /\ heap'[hunk_a[f]] = heap[hunk_a[f]] \o heap[hunk_b[f]]
          /\ heap'[hunk_b[f]] = heap[hunk_b[f]]
    /\ hunk_a' = hunk_a /\ hunk_b' = hunk_b
    /\ merge_ret' = "None"
    /\ mpc' = "returned"

\* C14 as stated: for two Hunks a and b that hold no list in common,
\* a.merge(b) leaves each sequence of a equal to what it was followed by the
\* matching sequence of b, leaves the sequences of b as they were, returns
\* nothing and does not fail.
C14_MergeOfUnsharing ==
    [][(mpc = "called" /\ NoListShared) => MergedInPlace]_vars

\* C14, amended: the same, when also the three sequences of a are three
\* list objects.
C14_MergeOfDistinctLists ==
    [][(mpc = "called" /\ NoListShared /\ OwnListsDistinct) => MergedInPlace]_vars

\* a merge of Hunks of six lists has returned: p, q followed by p on the
\* receiver, p still on the argument
C14_Witness ==
    /\ mpc = "returned"
    /\ NoListShared /\ OwnListsDistinct
    /\ merge_ret = "None"
    /\ heap[hunk_a.insertions] = <<Items[1], Items[2], Items[1]>>
    /\ heap[hunk_b.insertions] = <<Items[1]>>
    /\ heap[hunk_a.context] = <<Items[1]>>
    /\ heap[hunk_b.context] = <<>>

\* how far a place of the source is from the end of the call when no line is
\* popped any more
Rank ==
    CASE pc = "start" -> 6
      [] pc = "body" -> 5
      [] pc = "hunks" -> 4
      [] pc = "outer" -> 3
      [] pc = "scan" -> 2
      [] pc = "scanned" -> 1
      [] OTHER -> 0

\* a measure of the work left: the lines not yet popped weigh more than any
\* place of the source
Measure == 7 * Len(diff) + Rank

\* some step of the call can be taken: a hunk header is popped, or another
\* step is enabled
CanStep ==
    \/ pc = "hunks" /\ HeaderNext
    \/ ENABLED (\/ ExcludeCC \/ Begin \/ OuterLoop \/ Return \/ ScanLine
                \/ BreakEmpty \/ FileHeader \/ MalformedPlus \/ HunksEnd
                \/ BodyLine \/ BodyTruncated \/ HunkFinish)

\* C21: the parser terminates on every finite input, returning a Diff or
\* failing: every iteration of the segment-search loop, of the hunk-header
\* loop and of the hunk-body loop pops a line (or ends the call), every step
\* brings the call nearer to its end, and a call that has not ended can take
\* a step, so no state is reachable where the parser loops without popping.
C21_EveryLoopPops ==
    /\ [][pc = "scan" => Len(diff') = Len(diff) - 1]_vars
    /\ [][(pc = "hunks" /\ pc' = "body") => Len(diff') = Len(diff) - 1]_vars
    /\ [][(pc = "body" /\ ~CountsMet)
          => Len(diff') = Len(diff) - 1 \/ pc' = "failed"]_vars
    /\ [][Measure' < Measure]_vars
    /\ [](Measure >= 0)
    /\ [](pc \notin {"done", "failed"} => CanStep)

\* a call has ended with every line popped, after it went through the body
\* of two hunks and searched for a further segment
C21_Witness ==
    /\ pc = "done"
    /\ diff = <<>>
    /\ Len(hunklog) >= 2
    /\ ~HUNK_REGEX(input[Len(input)]).matched
    /\ Len(input) > BodyCount(input, {"+", "-", " "}) + 3
    /\ Measure = 0

\* every key of p holds a Hunk and is the key of a hunk that was built
KeysHoldHunks(p) ==
    \A k \in DOMAIN p :
        /\ DOMAIN p[k] # {}
        /\ \E i \in 1..Len(hunklog) : hunklog[i].key = k

\* C22: each key of patches maps to at least one Hunk, in patches at every
\* step and in the Diff returned: a file header that no hunk header follows
\* directly makes no key, and adds nothing to affected, whose elements all
\* come from keys of hunks that were built.
C22_NoKeyWithoutHunk ==
    /\ KeysHoldHunks(patches)
    /\ pc = "done" =>
         /\ KeysHoldHunks(ret.patches)
         /\ \A a \in ret.affected :
               \E i \in 1..Len(hunklog), side \in 1..2 :
                   a = SliceFrom2(hunklog[i].key[side])
         /\ (\A i \in 1..Len(input) : ~HUNK_REGEX(input[i]).matched)
               => ret.patches = EmptyDict /\ ret.affected = {}

\* the file header of a created file with no hunk behind it, then a file
\* header with a hunk: only the second made a key and an affected path
C22_Witness ==
    /\ pc = "done"
    /\ input = <<MinusNull, PlusBY, MinusAX, PlusBX, HunkF, InsA>>
    /\ DOMAIN ret.patches = {<<FILE_SEPARATOR_MINUS_REGEX(MinusAX).group1,
                               FILE_SEPARATOR_PLUS_REGEX(PlusBX).group1>>}
    /\ ret.affected = {<<"x">>}

\* s is the front of t
IsPrefix(s, t) == Len(s) <= Len(t) /\ SubSeq(t, 1, Len(s)) = s

\* list without its empty payloads
NonEmpty(list) == SelectSeq(list, LAMBDA x : x # <<>>)

\* every Hunk of p is in q under the same key and heading, with at least the
\* payloads it holds in p, in front
KeptIn(p, q) ==
    \A kh \in HunksOf(p) :
        /\ kh \in HunksOf(q)
        /\ IsPrefix(p[kh[1]][kh[2]].insertions, q[kh[1]][kh[2]].insertions)
        /\ IsPrefix(p[kh[1]][kh[2]].deletions, q[kh[1]][kh[2]].deletions)
        /\ IsPrefix(p[kh[1]][kh[2]].context, q[kh[1]][kh[2]].context)

\* C23: the hunks of all file segments headed by one pair of paths gather
\* under one key: from line 99 on no step drops or replaces a Hunk of patches
\* (a later segment included), a hunk whose key and heading are in patches
\* already is appended to the Hunk found there, any other hunk is entered as
\* it is, and the Diff returned holds patches.
C23_SegmentsAccumulate ==
    /\ [][pc # "start" => KeptIn(patches, patches')]_vars
    /\ [][(pc = "body" /\ CountsMet)
          => LET k   == <<minus, plus>>
                 old == IF k \in DOMAIN patches /\ hunk_heading \in DOMAIN patches[k]
                        THEN patches[k][hunk_heading]
                        ELSE Hunk(<<>>, <<>>, <<>>)
                 new == patches'[k][hunk_heading]
             IN  /\ new.insertions = old.insertions \o NonEmpty(insertions)
                 /\ new.deletions = old.deletions \o NonEmpty(deletions)
                 /\ new.context = old.context \o NonEmpty(context)
         ]_vars
    /\ []((pc = "done" /\ hunklog # <<>>) => ret.patches = patches)

\* two segments headed by a/x and b/x, each with a hunk of heading f: the
\* Diff holds one key and one Hunk, the payloads of the first segment in
\* front of those of the second
C23_Witness ==
    /\ pc = "done"
    /\ input = <<MinusAX, PlusBX, HunkF, InsA, MinusAX, PlusBX, HunkF2, DelB, InsD>>
    /\ Cardinality(DOMAIN ret.patches) = 1
    /\ \A kh \in HunksOf(ret.patches) :
         ret.patches[kh[1]][kh[2]]
            = Hunk(<<Payload(InsA), Payload(InsD)>>, <<Payload(DelB)>>, <<>>)

\* a body line is about to be popped; it is not empty and starts with none
\* of '+', '-', ' ' and backslash
AtUnknownLine ==
    /\ pc = "body" /\ ~CountsMet /\ diff # <<>>
    /\ Head(diff) # <<>>
    /\ Head(diff)[1] \notin {"+", "-", " ", "\\"}

\* C24: inside a hunk body a line that is not empty and starts with none of
\* '+', '-', ' ' and backslash is consumed without failure, adds one to the
\* old-side and to the new-side running count, and adds no payload to any
\* sequence.
C24_UnknownLineCountsBoth ==
    [][AtUnknownLine
       => /\ diff' = Tail(diff)
          /\ del_cntr' = del_cntr + 1
          /\ add_cntr' = add_cntr + 1
          /\ <<insertions, deletions, context>>' = <<insertions, deletions, context>>
          /\ patches' = patches
          /\ pc' = "body" /\ raised' = ""
      ]_vars

\* a line 'x' was popped behind an insertion in a hunk body: both counts
\* went up, the sequences hold the insertion only
C24_Witness ==
    /\ pc = "body"
    /\ Len(input) >= 5 /\ HUNK_REGEX(input[3]).matched
    /\ input[4] = InsA /\ input[5] = Noise
    /\ Position = 6
    /\ add_cntr = 2 /\ del_cntr = 1
    /\ insertions = <<Payload(InsA)>> /\ deletions = <<>> /\ context = <<>>

\* the call of load_pkl_or_execute has ended
Ended == lpc \in {"returned", "raised"}

\* what the claim promises of a call: update_command was called once, with
\* the value loaded from the file or with None when there was no file; the
\* file holds the produced value if changed was reported and is as it was
\* before the call otherwise; the produced value is returned
AsPromised ==
    /\ Len(calls) = 1
    /\ calls[1] = (IF file0 = Absent THEN None ELSE file0.value)
    /\ LET out == update_command[calls[1]]
       IN  /\ out.kind = "return"
           /\ out.changed => file = Pickle(out.ret) /\ dumps = <<out.ret>>
           /\ ~out.changed => file = file0 /\ dumps = <<>>
           /\ lpc = "returned"
           /\ pkl_ret = out.ret

CallCanSucceed ==
    /\ file0 = Absent \/ file0.kind = "pickle"
    /\ LET out == update_command[IF file0 = Absent THEN None ELSE file0.value]
       IN  /\ out.kind = "return"
           /\ out.changed => out.ret \in Picklable

====
